---- MODULE Spec2Model ----
(***************************************************************************)
(* Model of elasticsearch-index-cleaner: src/src/es.rs (indices_clean and  *)
(* the functions it calls).  The cluster is the environment: every cluster *)
(* call is one step whose outcome (transport failure, HTTP status, body)   *)
(* is chosen from a small set.  `calls' is the history of the requests     *)
(* sent, in order, with the outcome each one got.                          *)
(***************************************************************************)
EXTENDS Integers, Sequences, FiniteSets, TLC

VARIABLES
    pc,               \* position of indices_clean
    repository,       \* configured snapshot repository (argument)
    keep_days,        \* configured retention in days (argument, u32)
    indices,          \* get_outdated_indices: the parsed cat-indices listing
    now,              \* get_outdated_indices: Utc::now()
    outdated_indices, \* indices_clean: the Vec<String> it iterates
    cur,              \* position of the for loop in outdated_indices
    snapshots,        \* the status body parsed by the latest call
    sleeps,           \* number of tokio::time::sleep calls so far
    calls,            \* history: requests sent, in order, and how each ended
    cd,               \* date::deserialize: the number the "cd" string spells
    date,             \* date::deserialize: the DateTime<Utc> it returns
    external,         \* cluster: a snapshot started by another process
    opt,              \* main: Opt::from_args(), the command line
    environment,      \* main: the environment variables of the process
    resolved          \* main: es_addr, repository and index_filter

\* the variables of date::deserialize
date_vars == <<cd, date>>

\* the variables of main
main_vars == <<opt, environment, resolved>>

vars == <<pc, repository, keep_days, indices, now, outdated_indices, cur,
          snapshots, sleeps, calls, date_vars, external, main_vars>>

----------------------------------------------------------------------------
(* Bounds of the model *)

\* ticks in one day (stands for the 86_400_000 ms of a day)
DayLen == 2
\* creation times and `now' range over 0 .. MaxDays whole days and a rest
MaxDays == 2
\* keep_days ranges over 0 .. MaxKeep
MaxKeep == 1
\* records in one snapshot-status body
MaxRecs == 1
\* iterations of the two polling loops that go to sleep, over the whole run
MaxSleeps == 1

IndexNames == {"logs-a", "logs-b", "logs-c"}
Repositories == {"backup-repo"}
Times == 0 .. (MaxDays * DayLen + DayLen - 1)
SnapshotStates == {"SUCCESS", "IN_PROGRESS", "FAILED", "PARTIAL"}

\* struct IndexAndCreationDate
IndexAndCreationDate == [index : IndexNames, creation_date : Times]

\* struct Snapshot
Snapshot == [snapshot : IndexNames, state : SnapshotStates]

\* struct Snapshots: the `snapshots' field of a status body.  Only emptiness
\* and the number of matching records are read, so the Vec is kept as a set.
Snapshots == {b \in SUBSET Snapshot : Cardinality(b) <= MaxRecs}

\* cat-indices bodies that parse: each index is listed once
Listings ==
    UNION {{l \in [1 .. n -> IndexAndCreationDate] :
              \A i, j \in 1 .. n : l[i].index = l[j].index => i = j} :
           n \in 0 .. Cardinality(IndexNames)}

\* SnapshotStatusParts::None carries neither a repository nor a name
None == ""

----------------------------------------------------------------------------
(* Outcomes of a cluster call *)

\* send().await? fails: no response at all
Transport == "transport"
\* a response whose body does not deserialize into the expected type; the
\* error object of a non-success status is such a body
Malformed == "malformed"
\* a response with a 2xx status / another status.  No call site looks at the
\* status (there is no error_for_status_code), so for the calls that parse
\* the body only the body decides.
Success2xx == "2xx"
Non2xx == "non2xx"

\* one entry of the history: the request (operation, repository and snapshot
\* or index name of the URL, "indices" of the JSON body) and its outcome
Call(op, repo, name, body_indices, outcome) ==
    [op |-> op, repo |-> repo, name |-> name, indices |-> body_indices,
     outcome |-> outcome]

----------------------------------------------------------------------------
(* Pure functions *)

\* chrono Duration::num_days: whole days, truncated toward zero
NumDays(d) ==
    IF d >= 0 THEN d \div DayLen ELSE -((-d) \div DayLen)

\* mutant: the comparison is not strict
IsOutdated_NotStrict(i, t, k) ==
    NumDays(t - i.creation_date) >= k

\* the closure of the filter in get_outdated_indices
IsOutdated(i, t, k) ==
    NumDays(t - i.creation_date) > k

\* mutant: the selected names come out in reverse order
RECURSIVE FilterOutdated_Reversed(_, _, _)
FilterOutdated_Reversed(l, t, k) ==
    IF l = <<>> THEN <<>>
    ELSE IF IsOutdated(Head(l), t, k)
         THEN FilterOutdated_Reversed(Tail(l), t, k) \o <<Head(l).index>>
         ELSE FilterOutdated_Reversed(Tail(l), t, k)

\* indices.iter().filter(..).map(|i| i.index.to_string()).collect()
RECURSIVE FilterOutdated(_, _, _)
FilterOutdated(l, t, k) ==
    IF l = <<>> THEN <<>>
    ELSE IF IsOutdated(Head(l), t, k)
         THEN <<Head(l).index>> \o FilterOutdated(Tail(l), t, k)
         ELSE FilterOutdated(Tail(l), t, k)

\* mutant: one running snapshot is tolerated
SnapshotRunning_MoreThanOne(body) ==
    Cardinality(body) > 1

\* mutant: the test of the vector is inverted
SnapshotRunning_Inverted(body) ==
    body = {}

\* is_snapshot_running: the value computed from a parsed body
SnapshotRunning(body) ==
    body # {}

\* mutant: the snapshot name of the record is not compared
SnapshotSuccess_AnyName(body, snapshot) ==
    Cardinality({s \in body : s.state = "SUCCESS"}) > 0

\* mutant: every state but IN_PROGRESS ends the wait
SnapshotSuccess_AnyFinalState(body, snapshot) ==
    Cardinality({s \in body :
                    s.snapshot = snapshot /\ s.state # "IN_PROGRESS"}) > 0

\* mutant: the state is compared with a word the cluster never reports
SnapshotSuccess_WrongWord(body, snapshot) ==
    Cardinality({s \in body : s.snapshot = snapshot /\ s.state = "DONE"}) > 0

\* is_snapshot_success: the value computed from a parsed body
SnapshotSuccess(body, snapshot) ==
    Cardinality({s \in body : s.snapshot = snapshot /\ s.state = "SUCCESS"}) > 0

----------------------------------------------------------------------------
(* src/src/date.rs *)

\* milliseconds in a second: the divisor and the modulus of line 21
MillisPerSec == 1000
\* NaiveDateTime::from_timestamp takes its second argument in nanoseconds
NanosPerMilli == 1000000
\* 2^32 = U32Quot * MillisPerSec + U32Rem: the modulus of `t as u32'
U32Quot == 4294967
U32Rem == 296

\* An i64 of milliseconds is kept as the pair (q, r) that stands for
\* q * MillisPerSec + r with 0 <= r < MillisPerSec, since the values are wider
\* than the integers of the checker.
Wide(q, r) == [q |-> q, r |-> r]

\* the seconds of the inputs: the epoch, the two sides of 2^32 ms, a
\* present-day value (the one of the doc comment in es.rs)
DateSeconds == {0, 1, U32Quot - 1, U32Quot, 2 * U32Quot, 1622431908}

\* s.parse::<i64>() of a string of digits that spells a non-negative number
DateInputs == [q : DateSeconds, r : 0 .. (MillisPerSec - 1)]

\* no DateTime yet
NoDate == [secs |-> -1, nanos |-> 0]

\* (t as u32) % 1000 for t = q * 1000 + r: with q = a * U32Quot + b,
\* t = a * 2^32 + (b * 1000 + r - a * U32Rem), so t div 2^32 is a, or a - 1
\* when the bracket is negative, and (t mod 2^32) mod 1000 is
\* (r - (t div 2^32) * U32Rem) mod 1000.
AsU32Mod1000(t) ==
    LET a == t.q \div U32Quot
        b == t.q % U32Quot
        wraps == IF b >= MillisPerSec \/ b * MillisPerSec + t.r >= a * U32Rem
                 THEN a ELSE a - 1
    IN  (t.r - wraps * U32Rem) % MillisPerSec

\* deserialize:
\* NaiveDateTime::from_timestamp(t / 1000, (t as u32) % 1000)
DeserializeDate(t) ==
    [secs |-> t.q, nanos |-> AsU32Mod1000(t)]

\* DateTime::timestamp_millis: the seconds and the whole milliseconds of the
\* sub-second nanoseconds
TimestampMillis(d) ==
    Wide(d.secs, d.nanos \div NanosPerMilli)

----------------------------------------------------------------------------
(* The cluster beside the run *)

\* no snapshot of another process is in progress
NoExternal == "none"
\* one is in progress; it started after the gate of the current candidate
\* answered empty and before the create request (InWindow), or at any other
\* moment (Running)
InWindow == "in_window"
Running == "running"

----------------------------------------------------------------------------
(* src/src/main.rs and src/src/args.rs: where the arguments come from *)

\* Option::None and a variable that is not set
Absent == "(absent)"

\* the three Option<String> fields of struct Opt
Fields == {"elasticsearch_addr", "elasticsearch_repo", "index_filter"}

\* the environment variable main reads for each of them
KeyOf ==
    [elasticsearch_addr |-> "ELASTICSEARCH_ADDRESS",
     elasticsearch_repo |-> "ELASTICSEARCH_REPOSITORY",
     index_filter       |-> "ELASTICSEARCH_INDEX_FILTER"]

Keys == {KeyOf[f] : f \in Fields}

\* what the command line gives a field when it gives it
CliValue ==
    [elasticsearch_addr |-> "http://cli:9200",
     elasticsearch_repo |-> "backup-repo",
     index_filter       |-> "cli-*"]

\* what the environment gives a key when it is set
EnvValue ==
    [ELASTICSEARCH_ADDRESS      |-> "http://env:9200",
     ELASTICSEARCH_REPOSITORY   |-> "env-repo",
     ELASTICSEARCH_INDEX_FILTER |-> "env-*"]

\* main hands &opt.<field>, an &Option<String>, to a parameter of type &str.
\* The source does not say which string stands for None: it is either the
\* empty string or the word None.
NoneStrings == {"", "None"}

AsStr(o) == IF o = Absent THEN NoneStrings ELSE {o}

\* anyhow::Result<String>
Ok(v) == [ok |-> TRUE, v |-> v]
Err(key) == [ok |-> FALSE, v |-> key]

\* main::env_or_else: the variable if it is set, otherwise `or'
env_or_else(key, or) ==
    IF environment[key] # Absent THEN environment[key] ELSE or

\* args::value_or_env
value_or_env(key, other) ==
    IF other # Absent THEN Ok(other)
    ELSE IF environment[key] # Absent THEN Ok(environment[key])
    ELSE Err(key)

\* args::env_or
env_or(key, other) ==
    IF environment[key] # Absent THEN Ok(environment[key])
    ELSE IF other # Absent THEN Ok(other)
    ELSE Err(key)

\* Url::parse in create_client: a relative reference has no base
UrlParses(addr) ==
    addr \in {CliValue.elasticsearch_addr, EnvValue.ELASTICSEARCH_ADDRESS}

\* main has not resolved anything yet
Unresolved == [es_addr |-> Absent, repository |-> Absent, index_filter |-> Absent]

----------------------------------------------------------------------------
(* The program *)

Init ==
    /\ pc = "list"
    /\ repository \in Repositories
    /\ keep_days \in 0 .. MaxKeep
    /\ indices = <<>>
    /\ now = 0
    /\ outdated_indices = <<>>
    /\ cur = 0
    /\ snapshots = {}
    /\ sleeps = 0
    /\ calls = <<>>
    /\ cd = Wide(0, 0)
    /\ date = NoDate
    /\ external = NoExternal
    /\ opt = [f \in Fields |-> IF f = "elasticsearch_repo" THEN repository
                                                           ELSE CliValue[f]]
    /\ environment = [k \in Keys |-> Absent]
    /\ resolved = [es_addr      |-> CliValue.elasticsearch_addr,
                   repository   |-> repository,
                   index_filter |-> CliValue.index_filter]

\* get_outdated_indices: the cat-indices call fails, or its body does not
\* parse; `?' returns the error from indices_clean
ListFails ==
    /\ pc = "list"
    /\ \E o \in {Transport, Malformed} :
          calls' = Append(calls, Call("cat_indices", None, None, None, o))
    /\ pc' = "err"
    /\ UNCHANGED <<main_vars, date_vars, external, repository, keep_days, indices, now, outdated_indices, cur,
                   snapshots, sleeps>>

\* get_outdated_indices: the listing parses, the clock is read and the
\* filter is applied (the function is about to return)
Listed(l, t) ==
    /\ indices' = l
    /\ now' = t
    /\ outdated_indices' = FilterOutdated(l, t, keep_days)
    /\ calls' = Append(calls, Call("cat_indices", None, None, None, Success2xx))
    /\ pc' = "filtered"
    /\ UNCHANGED <<main_vars, date_vars, external, repository, keep_days, cur, snapshots, sleeps>>

\* every listing that parses, read at every instant of the clock
ListIndices ==
    /\ pc = "list"
    /\ \E l \in Listings, t \in Times : Listed(l, t)

\* mutant: the loop body is entered before the vector is tested
EnterLoop_BodyFirst ==
    /\ pc = "filtered"
    /\ indices' = <<>>
    /\ now' = 0
    /\ pc' = "gate"
    /\ cur' = 1
    /\ UNCHANGED <<main_vars, date_vars, external, repository, keep_days, outdated_indices, snapshots, sleeps,
                   calls>>

\* get_outdated_indices returns (its locals are gone); indices_clean enters
\* the for loop, or returns Ok(()) when there is nothing to iterate
EnterLoop ==
    /\ pc = "filtered"
    /\ indices' = <<>>
    /\ now' = 0
    /\ IF outdated_indices = <<>>
       THEN pc' = "ok" /\ cur' = 0
       ELSE pc' = "gate" /\ cur' = 1
    /\ UNCHANGED <<main_vars, date_vars, external, repository, keep_days, outdated_indices, snapshots, sleeps,
                   calls>>

\* mutant: the candidates are taken from the back of the vector
index_Reversed == outdated_indices[Len(outdated_indices) + 1 - cur]

\* the loop variable of `for index in outdated_indices'
index == outdated_indices[cur]

\* take_snapshot_and_check, first loop: one is_snapshot_running call, then
\* sleep and stay, leave the loop, or return the error
GateQuery(o, body) ==
    /\ pc = "gate"
    /\ calls' = Append(calls, Call("status", None, None, None, o))
    /\ snapshots' = body
    /\ IF o # Success2xx
       THEN pc' = "err" /\ sleeps' = sleeps
       ELSE IF SnapshotRunning(body)
            THEN sleeps < MaxSleeps /\ sleeps' = sleeps + 1 /\ pc' = "gate"
            ELSE pc' = "take" /\ sleeps' = sleeps
    /\ UNCHANGED <<main_vars, date_vars, external, repository, keep_days, indices, now, outdated_indices, cur>>

Gate ==
    \/ \E o \in {Transport, Malformed} : GateQuery(o, {})
    \/ \E body \in Snapshots : GateQuery(Success2xx, body)

\* mutant: the snapshot gets a name of its own, not the name of the index
TakeSnapshot_OwnName ==
    /\ pc = "take"
    /\ \E o \in {Transport, Success2xx, Non2xx} :
          /\ calls' = Append(calls,
                             Call("create", repository, "snapshot-1", index, o))
          /\ pc' = IF o = Transport THEN "err" ELSE "poll"
    /\ snapshots' = {}
    /\ UNCHANGED <<main_vars, date_vars, external, repository, keep_days, indices, now,
                   outdated_indices, cur, sleeps>>

\* take_snapshot: the create request; the response is read as text and
\* logged, whatever its status (Transport also stands for a body that could
\* not be read off the connection)
TakeSnapshot ==
    /\ pc = "take"
    /\ \E o \in {Transport, Success2xx, Non2xx} :
          /\ calls' = Append(calls, Call("create", repository, index, index, o))
          /\ pc' = IF o = Transport THEN "err" ELSE "poll"
    /\ snapshots' = {}
    /\ UNCHANGED <<main_vars, date_vars, external, repository, keep_days, indices, now, outdated_indices, cur,
                   sleeps>>

\* mutant: a failed status call is retried after the sleep
PollQuery_RetryOnError(o, body) ==
    /\ pc = "poll"
    /\ calls' = Append(calls, Call("status", repository, index, None, o))
    /\ snapshots' = body
    /\ IF o # Success2xx \/ ~SnapshotSuccess(body, index)
       THEN sleeps < MaxSleeps /\ sleeps' = sleeps + 1 /\ pc' = "poll"
       ELSE pc' = "delete" /\ sleeps' = sleeps
    /\ UNCHANGED <<main_vars, date_vars, external, repository, keep_days, indices, now, outdated_indices, cur>>

\* mutant: a snapshot that is not ready is requested again
PollQuery_CreateAgain(o, body) ==
    /\ pc = "poll"
    /\ calls' = Append(calls, Call("status", repository, index, None, o))
    /\ snapshots' = body
    /\ IF o # Success2xx
       THEN pc' = "err" /\ sleeps' = sleeps
       ELSE IF ~SnapshotSuccess(body, index)
            THEN sleeps < MaxSleeps /\ sleeps' = sleeps + 1 /\ pc' = "take"
            ELSE pc' = "delete" /\ sleeps' = sleeps
    /\ UNCHANGED <<main_vars, date_vars, external, repository, keep_days, indices, now,
                   outdated_indices, cur>>

\* take_snapshot_and_check, second loop: one is_snapshot_success call, then
\* sleep and stay, return Ok to indices_clean, or return the error
PollQuery(o, body) ==
    /\ pc = "poll"
    /\ calls' = Append(calls, Call("status", repository, index, None, o))
    /\ snapshots' = body
    /\ IF o # Success2xx
       THEN pc' = "err" /\ sleeps' = sleeps
       ELSE IF ~SnapshotSuccess(body, index)
            THEN sleeps < MaxSleeps /\ sleeps' = sleeps + 1 /\ pc' = "poll"
            ELSE pc' = "delete" /\ sleeps' = sleeps
    /\ UNCHANGED <<main_vars, date_vars, external, repository, keep_days, indices, now, outdated_indices, cur>>

Poll ==
    \/ \E o \in {Transport, Malformed} : PollQuery(o, {})
    \/ \E body \in Snapshots : PollQuery(Success2xx, body)

\* mutant: the indices are listed again after every delete
DeleteIndex_ListAgain ==
    /\ pc = "delete"
    /\ \E o \in {Transport, Success2xx, Non2xx} :
          /\ calls' = Append(calls, Call("delete", None, index, None, o))
          /\ pc' = IF o = Transport THEN "err" ELSE "list"
    /\ cur' = cur
    /\ snapshots' = {}
    /\ UNCHANGED <<main_vars, date_vars, external, repository, keep_days, indices, now,
                   outdated_indices, sleeps>>

\* delete_index: the response is read as text and logged, whatever its
\* status; then the next iteration of the for loop, or Ok(())
DeleteIndex ==
    /\ pc = "delete"
    /\ \E o \in {Transport, Success2xx, Non2xx} :
          /\ calls' = Append(calls, Call("delete", None, index, None, o))
          /\ IF o = Transport
             THEN pc' = "err" /\ cur' = cur
             ELSE IF cur < Len(outdated_indices)
                  THEN pc' = "gate" /\ cur' = cur + 1
                  ELSE pc' = "ok" /\ cur' = cur
    /\ snapshots' = {}
    /\ UNCHANGED <<main_vars, date_vars, external, repository, keep_days, indices, now, outdated_indices,
                   sleeps>>

Next ==
    \/ ListFails
    \/ ListIndices
    \/ EnterLoop
    \/ Gate
    \/ TakeSnapshot
    \/ Poll
    \/ DeleteIndex

Spec == Init /\ [][Next]_vars

TypeOK ==
    /\ pc \in {"list", "filtered", "gate", "take", "poll", "delete", "ok", "err"}
    /\ cur \in 0 .. Len(outdated_indices)

----------------------------------------------------------------------------
(* Reading the history *)

Entries == 1 .. Len(calls)

\* the latest request and how it ended
Last == calls[Len(calls)]

\* this step sends one request
Sends == Len(calls') = Len(calls) + 1

\* the request this step sends
Sent == calls'[Len(calls')]

\* a cluster-wide status query: no repository and no snapshot name
IsGateQuery(c) ==
    c.op = "status" /\ c.repo = None /\ c.name = None

\* a status query for snapshot i in the configured repository
IsPollFor(c, i) ==
    c.op = "status" /\ c.repo = repository /\ c.name = i

\* the record that reports snapshot i as successful
SuccessRecord(i) == [snapshot |-> i, state |-> "SUCCESS"]

\* the index names of the requests with operation op, in the order sent
RECURSIVE NamesOf(_, _)
NamesOf(log, op) ==
    IF log = <<>> THEN <<>>
    ELSE IF Head(log).op = op
         THEN <<Head(log).name>> \o NamesOf(Tail(log), op)
         ELSE NamesOf(Tail(log), op)

IsPrefix(s, t) ==
    Len(s) <= Len(t) /\ \A n \in 1 .. Len(s) : s[n] = t[n]

----------------------------------------------------------------------------
(* C1 *)

\* C1: a delete_index(i) request is sent only when the request before it was
\* a status poll for snapshot i in the configured repository that came back
\* with a parsed body holding a record named i in state SUCCESS.
C1_DeleteOnlyAfterObservedSuccess ==
    [][(Sends /\ Sent.op = "delete") =>
          /\ calls # <<>>
          /\ IsPollFor(Last, Sent.name)
          /\ Last.outcome = Success2xx
          /\ SuccessRecord(Sent.name) \in snapshots]_vars

\* the delete request for the second candidate has been sent
C1_Witness ==
    /\ calls # <<>>
    /\ Last.op = "delete"
    /\ cur = 2

----------------------------------------------------------------------------
(* C2 *)

\* C2: once the create request for index i has ended in a non-2xx response
\* or a transport error, no delete request for i is ever sent and the run
\* does not return Ok.
C2_FailedCreateNeverDeletes ==
    \A k \in Entries :
        (calls[k].op = "create" /\ calls[k].outcome \in {Non2xx, Transport}) =>
            /\ pc # "ok"
            /\ \A m \in Entries :
                  calls[m].op = "delete" => calls[m].name # calls[k].name

----------------------------------------------------------------------------
(* C3 *)

\* the candidates after the current one appear in no request
LaterCandidatesUntouched ==
    \A j \in (cur + 1) .. Len(outdated_indices) :
        \A k \in Entries : calls[k].name # outdated_indices[j]

\* C3: a request that ends in a transport failure or in a body that does not
\* parse makes indices_clean return the error in that very step; after the
\* error no step is taken (no request of any kind, no retry), and the
\* candidates after the current one appear in no request.
C3_ErrorReturnsImmediately ==
    [][/\ (Sends /\ Sent.outcome \in {Transport, Malformed}) => pc' = "err"
       /\ pc # "err"
       /\ pc' = "err" => LaterCandidatesUntouched']_vars

\* a call of a per-index run has failed while candidates remain
C3_Witness ==
    /\ pc = "err"
    /\ cur >= 1
    /\ cur < Len(outdated_indices)
    /\ Last.op \in {"status", "create", "delete"}
    /\ Last.outcome \in {Transport, Malformed}

----------------------------------------------------------------------------
(* C4 *)

\* C4: a request that ends in anything but a response with a success status
\* (and a body that parses) is the last request of the run, and the run has
\* returned an error.
C4_EveryFailureAborts ==
    \A k \in Entries :
        calls[k].outcome # Success2xx => (k = Len(calls) /\ pc = "err")

----------------------------------------------------------------------------
(* C5 *)

----------------------------------------------------------------------------
(* C6 *)

\* the number of delete requests among the first k requests
DeletesUpTo(k) ==
    Cardinality({m \in 1 .. k : calls[m].op = "delete"})

\* the create requests whose index has no delete request yet
OpenSnapshots ==
    {k \in Entries :
        /\ calls[k].op = "create"
        /\ \A m \in Entries :
              calls[m].op = "delete" => calls[m].name # calls[k].name}

\* C6: the requests of the run follow, candidate after candidate and in
\* candidate order, the pattern (gate query)+ create (poll)+ delete: every
\* request that names an index names the candidate whose position is one
\* more than the number of deletes sent before it, a gate query comes only
\* at the start of a candidate (after the listing, a gate query or a delete
\* that returned), and at most one requested snapshot is still open.
C6_OneIndexAtATime ==
    /\ \A k \in Entries :
          /\ calls[k].op \in {"create", "delete"} \/ calls[k].repo = repository =>
                /\ DeletesUpTo(k - 1) < Len(outdated_indices)
                /\ calls[k].name = outdated_indices[DeletesUpTo(k - 1) + 1]
          /\ (k > 1 /\ IsGateQuery(calls[k])) =>
                \/ calls[k - 1].op = "cat_indices"
                \/ IsGateQuery(calls[k - 1])
                \/ calls[k - 1].op = "delete" /\ calls[k - 1].outcome # Transport
          /\ calls[k].op = "create" => IsGateQuery(calls[k - 1])
          /\ calls[k].op = "status" /\ calls[k].repo = repository =>
                \/ calls[k - 1].op = "create"
                \/ IsPollFor(calls[k - 1], calls[k].name)
          /\ calls[k].op = "delete" => IsPollFor(calls[k - 1], calls[k].name)
    /\ Cardinality(OpenSnapshots) <= 1

\* the second candidate is in its gate after the first was deleted
C6_Witness ==
    /\ cur = 2
    /\ calls # <<>>
    /\ IsGateQuery(Last)
    /\ DeletesUpTo(Len(calls)) = 1
    /\ Len(outdated_indices) = 3

----------------------------------------------------------------------------
(* C7 *)

\* C7: a poll answer that parses and holds no SUCCESS record for the index
\* (it is empty, or reports FAILED, PARTIAL, IN_PROGRESS, or another
\* snapshot) leaves the run in the polling loop, not in an error; in the
\* polling loop the only request sent is the poll of the same index; and a
\* delete is sent only with the SUCCESS record of the index in the latest
\* answer.
C7_NonSuccessKeepsPolling ==
    [][/\ (Sends /\ IsPollFor(Sent, index) /\ Sent.outcome = Success2xx
              /\ SuccessRecord(index) \notin snapshots') =>
             (pc' = "poll" /\ cur' = cur)
       /\ (Sends /\ pc = "poll") => IsPollFor(Sent, index)
       /\ (Sends /\ Sent.op = "delete") =>
             SuccessRecord(Sent.name) \in snapshots]_vars

\* the poll reported the snapshot of the index FAILED or PARTIAL and the run
\* is polling again
C7_Witness ==
    /\ pc = "poll"
    /\ IsPollFor(Last, index)
    /\ \E s \in snapshots :
          s.snapshot = index /\ s.state \in {"FAILED", "PARTIAL"}

----------------------------------------------------------------------------
(* C8 *)

\* the names the filter returned
Selected == {outdated_indices[j] : j \in 1 .. Len(outdated_indices)}

\* C8: when get_outdated_indices returns, a listed index is among the names
\* returned exactly when its age now - creation_date is at least
\* keep_days + 1 full days; an age of keep_days full days and a rest is kept.
C8_StrictlyOlderThanKeepDays ==
    pc = "filtered" =>
        \A n \in 1 .. Len(indices) :
            indices[n].index \in Selected <=>
                now - indices[n].creation_date >= (keep_days + 1) * DayLen

\* one index aged keep_days days and a rest is kept, another one a day older
\* is selected
C8_Witness ==
    /\ pc = "filtered"
    /\ keep_days = 1
    /\ \E n, m \in 1 .. Len(indices) :
          /\ now - indices[n].creation_date = keep_days * DayLen + 1
          /\ indices[n].index \notin Selected
          /\ now - indices[m].creation_date = (keep_days + 1) * DayLen
          /\ indices[m].index \in Selected

----------------------------------------------------------------------------
(* C9 *)

\* positions of the listing whose record passes the age test
OutdatedPositions ==
    {n \in 1 .. Len(indices) : IsOutdated(indices[n], now, keep_days)}

\* the j-th of them, counted from the front of the listing
NthOutdated(j) ==
    CHOOSE n \in OutdatedPositions :
        Cardinality({m \in OutdatedPositions : m < n}) = j - 1

\* C9: when get_outdated_indices returns, its result has one name for each
\* listed record that passes the age test, in the order of the listing (an
\* empty listing gives an empty result); and the create and the delete
\* requests of the run name the candidates in the order of that result.
C9_ListingOrderKept ==
    /\ pc = "filtered" =>
          /\ Len(outdated_indices) = Cardinality(OutdatedPositions)
          /\ \A j \in 1 .. Len(outdated_indices) :
                outdated_indices[j] = indices[NthOutdated(j)].index
    /\ IsPrefix(NamesOf(calls, "create"), outdated_indices)
    /\ IsPrefix(NamesOf(calls, "delete"), outdated_indices)

\* the first and the third of three listed indices were selected and deleted
\* in that order, against the order of their names
C9_Witness ==
    /\ pc = "ok"
    /\ outdated_indices = <<"logs-c", "logs-a">>
    /\ NamesOf(calls, "delete") = outdated_indices

----------------------------------------------------------------------------
(* C10 *)

\* C10: after a listing that parsed and gave no outdated index (it was empty
\* or all its indices were young), indices_clean has returned Ok and the
\* listing is the only request of the run.
C10_NothingOutdatedNothingSent ==
    (/\ pc \notin {"list", "filtered"}
     /\ calls[1].outcome = Success2xx
     /\ outdated_indices = <<>>) =>
        (pc = "ok" /\ Len(calls) = 1)

\* the run has returned Ok without a candidate
C10_Witness ==
    /\ pc = "ok"
    /\ outdated_indices = <<>>
    /\ Len(calls) = 1

----------------------------------------------------------------------------
(* date::deserialize on its own *)

\* one "cd" string is deserialized
Deserialize ==
    /\ date = NoDate
    /\ \E t \in DateInputs :
          /\ cd' = t
          /\ date' = DeserializeDate(t)
    /\ UNCHANGED <<pc, repository, keep_days, indices, now, outdated_indices,
                   cur, snapshots, sleeps, calls, external, main_vars>>

DateSpec == Init /\ [][Deserialize]_vars

----------------------------------------------------------------------------
(* C11 *)

\* C11: the time deserialized from the string of a millisecond value t,
\* converted back to milliseconds, is t.
C11_DateRoundTrip ==
    date # NoDate => TimestampMillis(date) = cd

----------------------------------------------------------------------------
(* C12 *)

\* the name of the latest create request among the first k requests
LatestCreated(k) ==
    LET m == CHOOSE m \in 1 .. k :
                 /\ calls[m].op = "create"
                 /\ \A n \in (m + 1) .. k : calls[n].op # "create"
    IN  calls[m].name

\* C12: every create request goes to the configured repository, names its
\* snapshot after the candidate being processed and lists that same name as
\* the indices of its body; every poll after it goes to the same repository
\* and asks for that same name; and a poll answer whose only SUCCESS records
\* carry other names leaves the run in the polling loop.
C12_SnapshotNamedAfterIndex ==
    [][Sends =>
          /\ Sent.op = "create" =>
                /\ Sent.repo = repository
                /\ Sent.name = outdated_indices[cur]
                /\ Sent.indices = outdated_indices[cur]
          /\ (Sent.op = "status" /\ ~IsGateQuery(Sent)) =>
                /\ Sent.repo = repository
                /\ Sent.name = outdated_indices[cur]
                /\ Sent.name = LatestCreated(Len(calls))
          /\ (/\ Sent.op = "status" /\ ~IsGateQuery(Sent)
              /\ Sent.outcome = Success2xx
              /\ SuccessRecord(Sent.name) \notin snapshots') => pc' = "poll"]_vars

\* a poll was answered with the SUCCESS record of another snapshot, and the
\* run polls again
C12_Witness ==
    /\ pc = "poll"
    /\ IsPollFor(Last, outdated_indices[cur])
    /\ \E r \in snapshots :
          r.state = "SUCCESS" /\ r.snapshot # outdated_indices[cur]

----------------------------------------------------------------------------
(* C16 *)

\* the number of requests with operation op that name i
Count(op, i) ==
    Cardinality({k \in Entries : calls[k].op = op /\ calls[k].name = i})

\* C16: at any moment every index has at most one create and at most one
\* delete request in the history, however often the loops went round, and
\* a poll of the second loop is never followed by a create request.
C16_OneCreateOneDelete ==
    /\ \A i \in IndexNames : Count("create", i) <= 1 /\ Count("delete", i) <= 1
    /\ \A k \in Entries :
          (k < Len(calls) /\ calls[k].op = "status") =>
              calls[k + 1].op # "create" \/ IsGateQuery(calls[k])

\* the polling loop has slept and polled again, and the index was then
\* deleted
C16_Witness ==
    /\ Len(calls) >= 6
    /\ Last.op = "delete"
    /\ sleeps >= 1
    /\ Count("create", Last.name) = 1
    /\ IsPollFor(calls[Len(calls) - 1], Last.name)
    /\ IsPollFor(calls[Len(calls) - 2], Last.name)

----------------------------------------------------------------------------
(* C17 *)

\* C17: the indices are listed once, as the first request of the run; the
\* vector of candidates is written only by that listing, where it gets the
\* names of the listed indices that pass the age test against the one clock
\* reading and no other name; and every create and delete request names an
\* element of that vector.
C17_CandidatesFixedByTheListing ==
    [][/\ (Sends /\ Sent.op = "cat_indices") => calls = <<>>
       /\ outdated_indices' # outdated_indices => pc = "list"
       /\ pc' = "filtered" =>
             \A i \in IndexNames :
                 i \in {outdated_indices'[j] : j \in 1 .. Len(outdated_indices')}
                 <=> \E n \in 1 .. Len(indices') :
                        /\ indices'[n].index = i
                        /\ now' - indices'[n].creation_date
                              >= (keep_days + 1) * DayLen
       /\ (Sends /\ Sent.op \in {"create", "delete"}) =>
             Sent.name \in Selected]_vars

\* the run is over: two of the three names were candidates and were deleted,
\* the third was never named in a request
C17_Witness ==
    /\ pc = "ok"
    /\ Len(outdated_indices) = 2
    /\ \E i \in IndexNames :
          /\ i \notin Selected
          /\ \A k \in Entries : calls[k].name # i
    /\ \A i \in Selected : Count("delete", i) = 1

----------------------------------------------------------------------------
(* The run beside another process that takes snapshots *)

\* another process starts a snapshot
ExternalStarts ==
    /\ pc \notin {"ok", "err"}
    /\ external = NoExternal
    /\ external' = IF pc = "take" THEN InWindow ELSE Running
    /\ UNCHANGED <<pc, repository, keep_days, indices, now, outdated_indices,
                   cur, snapshots, sleeps, calls, date_vars, main_vars>>

\* the snapshot of the other process ends
ExternalEnds ==
    /\ pc \notin {"ok", "err"}
    /\ external # NoExternal
    /\ external' = NoExternal
    /\ UNCHANGED <<pc, repository, keep_days, indices, now, outdated_indices,
                   cur, snapshots, sleeps, calls, date_vars, main_vars>>

\* is_snapshot_running against this cluster: the cluster-wide status lists
\* the snapshots in progress, so it is empty exactly when none is
RaceGate ==
    \/ \E o \in {Transport, Malformed} : GateQuery(o, {})
    \/ \E body \in Snapshots :
          /\ (body # {}) <=> (external # NoExternal)
          /\ GateQuery(Success2xx, body)

RaceInit ==
    /\ Init
    /\ keep_days = 0

RaceNext ==
    \/ ListFails
    \/ ListIndices
    \/ EnterLoop
    \/ RaceGate
    \/ TakeSnapshot
    \/ Poll
    \/ DeleteIndex
    \/ ExternalStarts
    \/ ExternalEnds

RaceSpec == RaceInit /\ [][RaceNext]_vars

----------------------------------------------------------------------------
(* C13 *)

\* C13: the gate is left only while no snapshot of another process is in
\* progress, and yet a create request can be sent while one is: whenever
\* that happens, the snapshot started after the last gate query answered
\* empty and before the create request.
C13_RaceOnlyInTheWindow ==
    [][/\ (Sends /\ IsGateQuery(Sent) /\ pc' = "take") => external = NoExternal
       /\ (Sends /\ Sent.op = "create" /\ external # NoExternal) =>
             /\ external = InWindow
             /\ IsGateQuery(Last)
             /\ snapshots = {}]_vars

\* a create request has been sent while the snapshot of another process,
\* started after the gate answered empty, was and still is in progress
C13_Witness ==
    /\ calls # <<>>
    /\ Last.op = "create"
    /\ external = InWindow

----------------------------------------------------------------------------
(* The run against a cluster that answers every call *)

\* the instants at which a day begins, and the last instant of the clock
DayStarts == {d * DayLen : d \in 0 .. MaxDays}
LastInstant == MaxDays * DayLen + DayLen - 1

\* the listings whose indices were created as a day began
DayListings ==
    UNION {{l \in [1 .. n -> [index : IndexNames, creation_date : DayStarts]] :
              \A i, j \in 1 .. n : l[i].index = l[j].index => i = j} :
           n \in 0 .. Cardinality(IndexNames)}

\* the listing succeeds; the clock is read at its last instant, which
\* leaves every subset of a listing to the filter
LiveList ==
    /\ pc = "list"
    /\ \E l \in DayListings : Listed(l, LastInstant)

\* the status bodies of a cluster that runs one snapshot at a time
LiveBodies == {{}} \cup {{r} : r \in Snapshot}

\* a gate query is answered (with a body that parses)
LiveGate == \E body \in LiveBodies : GateQuery(Success2xx, body)

\* the gate query is answered with the empty set
GateSeesClear == GateQuery(Success2xx, {})

\* the create request is accepted
LiveTake == TakeSnapshot /\ Sent.outcome = Success2xx

\* a poll is answered (with a body that parses)
LivePoll == \E body \in LiveBodies : PollQuery(Success2xx, body)

\* the poll is answered with the snapshot of the index in state SUCCESS
PollSeesSuccess ==
    /\ pc = "poll"
    /\ PollQuery(Success2xx, {SuccessRecord(outdated_indices[cur])})

\* the delete request is accepted
LiveDelete == DeleteIndex /\ Sent.outcome = Success2xx

\* the rounds of the two loops beyond the MaxSleeps the history keeps: the
\* answer is not the awaited one, the run sleeps and asks again
LoopsOn ==
    /\ sleeps = MaxSleeps
    /\ \E body \in LiveBodies :
          /\ \/ pc = "gate" /\ SnapshotRunning(body)
             \/ pc = "poll" /\ ~SnapshotSuccess(body, index)
          /\ snapshots' = body
    /\ UNCHANGED <<pc, repository, keep_days, indices, now, outdated_indices,
                   cur, sleeps, calls, date_vars, external, main_vars>>

LiveInit ==
    /\ Init
    /\ keep_days = 0

LiveNext ==
    \/ LiveList
    \/ EnterLoop
    \/ LiveGate
    \/ LiveTake
    \/ LivePoll
    \/ LiveDelete
    \/ LoopsOn

\* The task is driven to completion by the runtime (every step of the run
\* that can be taken is taken); the cluster eventually answers a gate query
\* with the empty set and a poll with the SUCCESS record.
LiveSpec ==
    /\ LiveInit
    /\ [][LiveNext]_vars
    /\ WF_vars(LiveList)
    /\ WF_vars(EnterLoop)
    /\ WF_vars(GateSeesClear)
    /\ WF_vars(LiveTake)
    /\ WF_vars(PollSeesSuccess)
    /\ WF_vars(LiveDelete)

----------------------------------------------------------------------------
(* C14 *)

\* C14: when no call fails, the gate is eventually answered empty and every
\* requested snapshot is eventually reported SUCCESS, the run eventually
\* returns Ok with one delete request sent for every selected index.
C14_EventuallyAllRetired ==
    <>(pc = "ok" /\ \A i \in Selected : Count("delete", i) = 1)

\* the run has returned Ok after both loops had to wait, with three indices
\* deleted
C14_Witness ==
    /\ pc = "ok"
    /\ Len(outdated_indices) = 3
    /\ sleeps = MaxSleeps
    /\ \A i \in Selected : Count("delete", i) = 1

----------------------------------------------------------------------------
(* main: from the command line and the environment to indices_clean *)

\* the process starts: each field is given on the command line or not, each
\* variable is set or not
ConfigInit ==
    /\ pc = "main"
    /\ opt \in {o \in [Fields -> {Absent} \cup {CliValue[f] : f \in Fields}] :
                  \A f \in Fields : o[f] \in {Absent, CliValue[f]}}
    /\ environment \in {e \in [Keys -> {Absent} \cup {EnvValue[k] : k \in Keys}] :
                          \A k \in Keys : e[k] \in {Absent, EnvValue[k]}}
    /\ resolved = Unresolved
    /\ repository = Absent
    /\ keep_days \in 0 .. MaxKeep
    /\ indices = <<>>
    /\ now = 0
    /\ outdated_indices = <<>>
    /\ cur = 0
    /\ snapshots = {}
    /\ sleeps = 0
    /\ calls = <<>>
    /\ cd = Wide(0, 0)
    /\ date = NoDate
    /\ external = NoExternal

\* main, lines 16-19: the three values are resolved with env_or_else, which
\* returns a String and has no error to return
MainResolve ==
    /\ pc = "main"
    /\ \E a \in AsStr(opt.elasticsearch_addr),
          r \in AsStr(opt.elasticsearch_repo),
          x \in AsStr(opt.index_filter) :
          resolved' =
              [es_addr      |-> env_or_else(KeyOf.elasticsearch_addr, a),
               repository   |-> env_or_else(KeyOf.elasticsearch_repo, r),
               index_filter |-> env_or_else(KeyOf.index_filter, x)]
    /\ pc' = "resolved"
    /\ UNCHANGED <<opt, environment, date_vars, external, repository,
                   keep_days, indices, now, outdated_indices, cur, snapshots,
                   sleeps, calls>>

\* main, lines 21-22: create_client(&es_addr).unwrap() panics when the
\* address is not a URL; otherwise indices_clean is entered with the
\* resolved repository and filter, whatever they are
CreateClient ==
    /\ pc = "resolved"
    /\ IF UrlParses(resolved.es_addr)
       THEN /\ pc' = "list"
            /\ repository' = resolved.repository
       ELSE /\ pc' = "panic"
            /\ UNCHANGED repository
    /\ UNCHANGED <<main_vars, date_vars, external, keep_days, indices, now,
                   outdated_indices, cur, snapshots, sleeps, calls>>

\* the first cluster call of indices_clean follows
ConfigNext ==
    \/ MainResolve
    \/ CreateClient
    \/ ListFails
    \/ LiveList

ConfigSpec == ConfigInit /\ [][ConfigNext]_vars

----------------------------------------------------------------------------
(* C15 *)

\* field f is given neither on the command line nor in the environment
Missing(f) == opt[f] = Absent /\ environment[KeyOf[f]] = Absent

\* the values that f is given, on the command line or in the environment
Given(f) == {opt[f], environment[KeyOf[f]]} \ {Absent}

\* C15: a required value (address, repository, index filter) that is absent
\* from both the command line and the environment ends the process before
\* any cluster call is made; a value present in one of the two is what the
\* resolution returns, value_or_env preferring the command line and env_or
\* the environment.
C15_MissingValueIsFatal ==
    /\ (\E f \in Fields : Missing(f)) =>
          /\ calls = <<>>
          /\ pc \in {"main", "resolved", "panic"}
    /\ \A f \in Fields :
          /\ Missing(f) =>
                /\ ~value_or_env(KeyOf[f], opt[f]).ok
                /\ ~env_or(KeyOf[f], opt[f]).ok
          /\ ~Missing(f) =>
                /\ value_or_env(KeyOf[f], opt[f]).ok
                /\ value_or_env(KeyOf[f], opt[f]).v \in Given(f)
                /\ env_or(KeyOf[f], opt[f]).ok
                /\ env_or(KeyOf[f], opt[f]).v \in Given(f)
          /\ opt[f] # Absent =>
                value_or_env(KeyOf[f], opt[f]).v = opt[f]
          /\ environment[KeyOf[f]] # Absent =>
                env_or(KeyOf[f], opt[f]).v = environment[KeyOf[f]]

====
